---------------------------- MODULE Spec2Model ----------------------------
(***************************************************************************)
(* Model of src/indexx.js: the rate-limited request scheduler              *)
(* (withRateLimit / executeWithRateLimit / setupRateLimitReset), the       *)
(* search call that goes through it (fetchAndSelectSubtitle), the encoding *)
(* normalizer (fetchSubtitleContent) and the cue merge (mergeSubtitles).   *)
(***************************************************************************)
EXTENDS Integers, Sequences, FiniteSets, TLC

(***************************************************************************)
(* Program constant and model bounds.                                      *)
(***************************************************************************)
MAX_REQUESTS_PER_MINUTE == 40

\* Number of calls of fetchAndSelectSubtitle that can be live at one time.
MaxOps == 2

Ops == 1..MaxOps

VARIABLES
    requestTimer,        \* line 18: FALSE for null, TRUE once setInterval ran
    requestsThisMinute,  \* line 17
    requestQueue,        \* line 15: sequence of {resolve, reject, fn}, by op
    microtasks,          \* the promise job queue of the event loop
    pc,                  \* position of each fetchAndSelectSubtitle call
    runs,                \* how many times the call's fn was executed
    inflight,            \* ops whose axios.get is waiting for the network
    outcome,             \* how the op's axios promise settled
    value,               \* the response body or the error, once the code read it
    promise,             \* state of the promise withRateLimit returned
    ret,                 \* what fetchAndSelectSubtitle returned
    startedThisWindow,   \* history: fn executions since the last reset
    waiting,             \* history: queued ops not yet executed, oldest first
    wasQueued,           \* history: the live call went through requestQueue
    half,                \* clock: 1 from a reset to the mark, 2 from the mark on
    markStarts,          \* clock: fn executions counted from the last mark
    mainSubs,            \* mergeSubtitles: argument
    transSubs,           \* mergeSubtitles: argument
    mergedSubs,          \* mergeSubtitles: line 247
    transIndex,          \* mergeSubtitles: line 248, counted from 1
    mainPos,             \* mergeSubtitles: position of the for loop of line 249
    url,                 \* fetchSubtitleContent: argument, split at its dots
    data,                \* fetchSubtitleContent: bytes the server answers with
    contentBuffer,       \* fetchSubtitleContent: line 154
    rawDetectedEncoding, \* fetchSubtitleContent: line 167, "null" for null
    detectedEncoding,    \* fetchSubtitleContent: line 166
    subtitleText,        \* fetchSubtitleContent: line 155
    contentPc,           \* fetchSubtitleContent: position in the function
    contentRet,          \* fetchSubtitleContent: what it returned
    gunzip,              \* history: what the branch of lines 156-165 did
    responseData,        \* fetchAndSelectSubtitle: response.data, an array
    validFormatSubs,     \* fetchAndSelectSubtitle: line 105
    subtitleList,        \* fetchAndSelectSubtitle: line 119
    rankPc,              \* fetchAndSelectSubtitle: position after the await
    rankRet              \* fetchAndSelectSubtitle: "null" or "list" once returned

schedVars == <<requestTimer, requestsThisMinute, requestQueue, microtasks>>
callVars == <<pc, runs, inflight, outcome, value, promise, ret>>
histVars == <<startedThisWindow, waiting, wasQueued>>
clockVars == <<half, markStarts>>
mergeVars == <<mainSubs, transSubs, mergedSubs, transIndex, mainPos>>
normVars == <<url, data, contentBuffer, rawDetectedEncoding, detectedEncoding,
              subtitleText, contentPc, contentRet, gunzip>>
rankVars == <<responseData, validFormatSubs, subtitleList, rankPc, rankRet>>
vars == <<schedVars, callVars, histVars, clockVars, mergeVars, normVars, rankVars>>

Range(s) == {s[i] : i \in 1..Len(s)}

RECURSIVE Without(_, _)
Without(s, x) ==
    IF s = <<>> THEN <<>>
    ELSE IF Head(s) = x THEN Without(Tail(s), x)
    ELSE <<Head(s)>> \o Without(Tail(s), x)

Job(op, kind) == [op |-> op, job |-> kind]

(***************************************************************************)
(* The scheduler's own state as one value, so that the reset loop can call *)
(* executeWithRateLimit repeatedly inside one step.                        *)
(***************************************************************************)
Sched == [n |-> requestsThisMinute, q |-> requestQueue, m |-> microtasks]

\* executeWithRateLimit with the comparison of line 71 off by one
executeWithRateLimit_offByOne(S, op) ==
    IF S.n <= MAX_REQUESTS_PER_MINUTE
    THEN [S EXCEPT !.n = S.n + 1, !.m = Append(S.m, Job(op, "fn"))]
    ELSE [S EXCEPT !.q = Append(S.q, op)]

\* lines 70-81
executeWithRateLimit(S, op) ==
    IF S.n < MAX_REQUESTS_PER_MINUTE
    THEN [S EXCEPT !.n = S.n + 1, !.m = Append(S.m, Job(op, "fn"))]
    ELSE [S EXCEPT !.q = Append(S.q, op)]

\* the while loop taking the newest entry (pop) instead of the oldest (shift)
RECURSIVE DrainQueue_pop(_)
DrainQueue_pop(S) ==
    IF S.n < MAX_REQUESTS_PER_MINUTE /\ Len(S.q) > 0
    THEN DrainQueue_pop(executeWithRateLimit([S EXCEPT !.q = SubSeq(S.q, 1, Len(S.q) - 1)],
                                            S.q[Len(S.q)]))
    ELSE S

\* lines 62-65: the while loop of the interval callback
RECURSIVE DrainQueue(_)
DrainQueue(S) ==
    IF S.n < MAX_REQUESTS_PER_MINUTE /\ Len(S.q) > 0
    THEN DrainQueue(executeWithRateLimit([S EXCEPT !.q = Tail(S.q)], Head(S.q)))
    ELSE S

\* an interval callback that resets the counter and leaves the queue alone
ResetWindow_noDrain(S) == [S EXCEPT !.n = 0]

\* lines 60-66: the interval callback
ResetWindow(S) == DrainQueue([S EXCEPT !.n = 0])

SchedInit ==
    /\ requestTimer = FALSE
    /\ requestsThisMinute = 0
    /\ requestQueue = <<>>
    /\ microtasks = <<>>
    /\ pc = [o \in Ops |-> "idle"]
    /\ runs = [o \in Ops |-> 0]
    /\ inflight = {}
    /\ outcome = [o \in Ops |-> "none"]
    /\ value = [o \in Ops |-> "none"]
    /\ promise = [o \in Ops |-> "none"]
    /\ ret = [o \in Ops |-> "none"]
    /\ startedThisWindow = 0
    /\ waiting = <<>>
    /\ wasQueued = [o \in Ops |-> FALSE]
    /\ half = 1
    /\ markStarts = 0

\* no merge is running
MergeIdle ==
    /\ mainSubs = <<>>
    /\ transSubs = <<>>
    /\ mergedSubs = <<>>
    /\ transIndex = 1
    /\ mainPos = 1

\* no download is running
ContentIdle ==
    /\ url = <<>>
    /\ data = <<>>
    /\ contentBuffer = <<>>
    /\ rawDetectedEncoding = "null"
    /\ detectedEncoding = "utf8"
    /\ subtitleText = [codec |-> "none", bytes |-> <<>>]
    /\ contentPc = "idle"
    /\ contentRet = "none"
    /\ gunzip = "none"

\* no search response is being ranked
RankIdle ==
    /\ responseData = <<>>
    /\ validFormatSubs = <<>>
    /\ subtitleList = <<>>
    /\ rankPc = "idle"
    /\ rankRet = "none"

Init == SchedInit /\ MergeIdle /\ ContentIdle /\ RankIdle

\* lines 90-100 and 83-88: fetchAndSelectSubtitle up to its await
WithRateLimit(op) ==
    /\ pc[op] = "idle"
    /\ op = CHOOSE o \in Ops : pc[o] = "idle" /\ \A p \in Ops : pc[p] = "idle" => o <= p
    /\ \A i \in 1..Len(microtasks) : microtasks[i].job = "fn"
    /\ LET S == executeWithRateLimit(Sched, op) IN
        /\ requestTimer' = TRUE
        /\ requestsThisMinute' = S.n
        /\ requestQueue' = S.q
        /\ microtasks' = S.m
        /\ waiting' = IF op \in Range(S.q) THEN Append(waiting, op) ELSE waiting
        /\ wasQueued' = [wasQueued EXCEPT ![op] = op \in Range(S.q)]
    /\ pc' = [pc EXCEPT ![op] = "await"]
    /\ promise' = [promise EXCEPT ![op] = "pending"]
    /\ UNCHANGED <<runs, inflight, outcome, value, ret, startedThisWindow>>

\* lines 73-74 and 95-99: the job Promise.resolve().then(fn) queued
RunFn ==
    /\ microtasks # <<>>
    /\ Head(microtasks).job = "fn"
    /\ LET op == Head(microtasks).op IN
        /\ runs' = [runs EXCEPT ![op] = @ + 1]
        /\ inflight' = inflight \cup {op}
        /\ waiting' = Without(waiting, op)
    /\ microtasks' = Tail(microtasks)
    /\ startedThisWindow' = startedThisWindow + 1
    /\ UNCHANGED <<requestTimer, requestsThisMinute, requestQueue, pc, outcome, value, promise, ret>>
    /\ UNCHANGED wasQueued

\* What a search can answer (lines 101, 140): a body or an error.
Bodies == {"subs", "empty", "nonarray"}
Failures == {"network", "timeout", "http429"}

\* The network answers an outstanding axios.get, which settles its promise:
\* a task of the event loop.  The content of the answer is chosen where the
\* code first reads it, in Resume.
Response(op, o) ==
    /\ microtasks = <<>>
    /\ op \in inflight
    /\ inflight' = inflight \ {op}
    /\ outcome' = [outcome EXCEPT ![op] = o]
    /\ microtasks' = Append(microtasks, Job(op, "thenResolve"))
    /\ UNCHANGED <<requestTimer, requestsThisMinute, requestQueue, pc, runs, value, promise, ret>>
    /\ UNCHANGED histVars

\* line 75: .then(resolve)
ThenResolve ==
    /\ microtasks # <<>>
    /\ Head(microtasks).job = "thenResolve"
    /\ LET op == Head(microtasks).op IN
        IF outcome[op] = "fulfilled"
        THEN /\ promise' = [promise EXCEPT ![op] = IF @ = "pending" THEN "fulfilled" ELSE @]
             /\ microtasks' = Append(Tail(microtasks), Job(op, "resume"))
        ELSE /\ promise' = promise
             /\ microtasks' = Append(Tail(microtasks), Job(op, "catchReject"))
    /\ UNCHANGED <<requestTimer, requestsThisMinute, requestQueue, pc, runs, inflight, outcome, value, ret>>
    /\ UNCHANGED histVars

\* a scheduler that runs a failed operation again instead of rejecting
CatchReject_retry ==
    /\ microtasks # <<>>
    /\ Head(microtasks).job = "catchReject"
    /\ microtasks' = Append(Tail(microtasks), Job(Head(microtasks).op, "fn"))
    /\ UNCHANGED <<requestTimer, requestsThisMinute, requestQueue>>
    /\ UNCHANGED callVars
    /\ UNCHANGED histVars

\* line 76: .catch(reject)
CatchReject ==
    /\ microtasks # <<>>
    /\ Head(microtasks).job = "catchReject"
    /\ LET op == Head(microtasks).op IN
        /\ promise' = [promise EXCEPT ![op] = IF @ = "pending" THEN "rejected" ELSE @]
        /\ microtasks' = Append(Tail(microtasks), Job(op, "resume"))
    /\ UNCHANGED <<requestTimer, requestsThisMinute, requestQueue, pc, runs, inflight, outcome, value, ret>>
    /\ UNCHANGED histVars

\* lines 95-137: the body of the try block; the await throws what the
\* promise was rejected with
TryBody(p, v) ==
    IF p = "rejected" THEN "throw"                     \* line 95
    ELSE IF v \in {"empty", "nonarray"} THEN "null"    \* lines 101-104
    ELSE "list"                                        \* line 137

\* fetchAndSelectSubtitle without its catch block
FetchResult_noCatch(p, v) ==
    IF TryBody(p, v) = "throw" THEN "raised" ELSE TryBody(p, v)

\* lines 94-144: what fetchAndSelectSubtitle returns once its await settles
FetchResult(p, v) ==
    IF TryBody(p, v) = "throw" THEN "null"             \* lines 138-144
    ELSE TryBody(p, v)

\* The continuation of the await of line 95: the call returns, which
\* settles the promise of the async function for its own caller.
Resume ==
    /\ microtasks # <<>>
    /\ Head(microtasks).job = "resume"
    /\ LET op == Head(microtasks).op IN
        /\ pc[op] = "await"
        /\ \E v \in (IF promise[op] = "rejected" THEN Failures ELSE Bodies) :
            /\ value' = [value EXCEPT ![op] = v]
            /\ ret' = [ret EXCEPT ![op] = FetchResult(promise[op], v)]
        /\ pc' = [pc EXCEPT ![op] = "returned"]
        /\ microtasks' = Append(Tail(microtasks), Job(op, "done"))
    /\ UNCHANGED <<requestTimer, requestsThisMinute, requestQueue, runs, inflight, outcome, promise>>
    /\ UNCHANGED histVars

\* The caller of fetchAndSelectSubtitle takes the result; the call is over
\* and its slot is free for a later call.
Done ==
    /\ microtasks # <<>>
    /\ Head(microtasks).job = "done"
    /\ LET op == Head(microtasks).op IN
        /\ pc' = [pc EXCEPT ![op] = "idle"]
        /\ runs' = [runs EXCEPT ![op] = 0]
        /\ outcome' = [outcome EXCEPT ![op] = "none"]
        /\ value' = [value EXCEPT ![op] = "none"]
        /\ promise' = [promise EXCEPT ![op] = "none"]
        /\ ret' = [ret EXCEPT ![op] = "none"]
        /\ wasQueued' = [wasQueued EXCEPT ![op] = FALSE]
    /\ microtasks' = Tail(microtasks)
    /\ UNCHANGED <<requestTimer, requestsThisMinute, requestQueue, inflight>>
    /\ UNCHANGED <<startedThisWindow, waiting>>

\* lines 60-66: the setInterval callback, a task of the event loop
TimerTick ==
    /\ requestTimer
    /\ microtasks = <<>>
    /\ LET S == ResetWindow(Sched) IN
        /\ requestsThisMinute' = S.n
        /\ requestQueue' = S.q
        /\ microtasks' = S.m
    /\ startedThisWindow' = 0
    /\ UNCHANGED <<requestTimer, waiting, wasQueued>>
    /\ UNCHANGED callVars

Next ==
    \/ (\E op \in Ops : WithRateLimit(op)) /\ UNCHANGED <<clockVars, mergeVars, normVars, rankVars>>
    \/ RunFn /\ UNCHANGED <<clockVars, mergeVars, normVars, rankVars>>
    \/ (\E op \in Ops, o \in {"fulfilled", "rejected"} : Response(op, o))
            /\ UNCHANGED <<clockVars, mergeVars, normVars, rankVars>>
    \/ ThenResolve /\ UNCHANGED <<clockVars, mergeVars, normVars, rankVars>>
    \/ CatchReject /\ UNCHANGED <<clockVars, mergeVars, normVars, rankVars>>
    \/ Resume /\ UNCHANGED <<clockVars, mergeVars, normVars, rankVars>>
    \/ Done /\ UNCHANGED <<clockVars, mergeVars, normVars, rankVars>>
    \/ TimerTick /\ UNCHANGED <<clockVars, mergeVars, normVars, rankVars>>

Spec == Init /\ [][Next]_vars

(***************************************************************************)
(* Claims about the scheduler.                                             *)
(***************************************************************************)
InQueue(op) == op \in Range(requestQueue)
PendingFn == {i \in 1..Len(microtasks) : microtasks[i].job = "fn"}

\* C1: between two consecutive resets (and before the first one) at most 40
\* operations are started; when calls are left over in the queue at the end
\* of a synchronous run, exactly 40 were started in the window; and a call
\* waiting in the queue is not executed and leaves the queue only in the
\* reset callback.
C1_WindowCapacity ==
    /\ [](/\ startedThisWindow <= MAX_REQUESTS_PER_MINUTE
          /\ (requestQueue # <<>> /\ PendingFn = {})
                => startedThisWindow = MAX_REQUESTS_PER_MINUTE
          /\ \A op \in Ops : InQueue(op) => runs[op] = 0)
    /\ [][\A op \in Ops : (InQueue(op) /\ ~InQueue(op)')
            => (TimerTick /\ runs'[op] = 0)]_vars

\* C1 witness: a full window with a call left waiting in the queue
C1_Overload ==
    /\ startedThisWindow = MAX_REQUESTS_PER_MINUTE
    /\ requestQueue # <<>>
    /\ microtasks = <<>>

\* C3: a queued operation starts only when it is the oldest of the queued
\* operations that have not started yet, so queued operations start in the
\* order in which they were queued, across resets.
C3_FifoOrder ==
    [][\A op \in Ops : (runs'[op] = runs[op] + 1 /\ wasQueued[op])
            => (waiting # <<>> /\ Head(waiting) = op)]_vars

\* C3 witness: two operations were queued; the one queued first has started
\* and the one queued after it has not
C3_TwoQueued ==
    \E a, b \in Ops :
        /\ a # b
        /\ wasQueued[a] /\ runs[a] = 1
        /\ wasQueued[b] /\ runs[b] = 0
        /\ waiting = <<b>>

\* C9: a call of fetchAndSelectSubtitle that has returned returned a list or
\* null, never an exception, and null whenever the body was empty or not an
\* array or the search failed.
C9_NeverRaises ==
    \A op \in Ops : pc[op] = "returned" =>
        /\ ret[op] \in {"list", "null"}
        /\ value[op] \in {"empty", "nonarray"} \cup Failures => ret[op] = "null"
        /\ promise[op] = "rejected" => ret[op] = "null"

\* C9 witness: a search that waited in the queue failed with HTTP 429 and
\* the call returned null
C9_QueuedFailure ==
    \E op \in Ops :
        /\ pc[op] = "returned"
        /\ wasQueued[op]
        /\ value[op] = "http429"
        /\ ret[op] = "null"

\* C10: every operation is executed at most once; a failed operation has
\* rejected the promise of its own call; and the counter is the number of
\* operations started in the window plus those admitted and about to start,
\* so a failure gives no capacity back.
C10_FailureSemantics ==
    /\ \A op \in Ops :
        /\ runs[op] <= 1
        /\ promise[op] \in {"fulfilled", "rejected"}
                => (promise[op] = outcome[op] /\ runs[op] = 1)
        /\ pc[op] = "returned" => promise[op] = outcome[op]
    /\ requestsThisMinute = startedThisWindow + Cardinality(PendingFn)

\* C10 witness: an operation run from the queue failed, its call's promise
\* is rejected, and the window's counter still counts it
C10_QueuedOpFailed ==
    \E op \in Ops :
        /\ wasQueued[op]
        /\ runs[op] = 1
        /\ outcome[op] = "rejected"
        /\ promise[op] = "rejected"
        /\ requestsThisMinute >= 1
        /\ startedThisWindow = requestsThisMinute

\* C18: between the tasks and promise jobs of the program, where a new
\* call can arrive, the counter is within 0..40 and is 40 whenever a call
\* is queued; so a call that arrives while another is queued is queued too
\* and starts no promise job.
C18_QueueImpliesFullWindow ==
    /\ [](/\ 0 <= requestsThisMinute
          /\ requestsThisMinute <= MAX_REQUESTS_PER_MINUTE
          /\ requestQueue # <<>> => requestsThisMinute = MAX_REQUESTS_PER_MINUTE)
    /\ [][\A op \in Ops :
            (pc[op] = "idle" /\ pc'[op] = "await" /\ requestQueue # <<>>)
            => /\ requestQueue' = Append(requestQueue, op)
               /\ microtasks' = microtasks
               /\ requestsThisMinute' = requestsThisMinute]_vars

\* C18 witness: a call arrived while another one was queued and was put
\* behind it
C18_SecondCallQueued ==
    /\ Len(requestQueue) = 2
    /\ requestsThisMinute = MAX_REQUESTS_PER_MINUTE
    /\ \A op \in Range(requestQueue) : promise[op] = "pending" /\ runs[op] = 0

(***************************************************************************)
(* Progress.  The interval timer fires again and again (line 66), whatever *)
(* else is pending; every axios.get is answered or runs into its timeout   *)
(* of 10 seconds (line 98); the event loop runs every promise job.         *)
(***************************************************************************)
OthersIdle == UNCHANGED <<clockVars, mergeVars, normVars, rankVars>>

Fairness ==
    /\ SF_vars(TimerTick /\ OthersIdle)
    /\ \A op \in Ops :
        SF_vars((\E o \in {"fulfilled", "rejected"} : Response(op, o)) /\ OthersIdle)
    /\ WF_vars(RunFn /\ OthersIdle)
    /\ WF_vars(ThenResolve /\ OthersIdle)
    /\ WF_vars(CatchReject /\ OthersIdle)
    /\ WF_vars(Resume /\ OthersIdle)
    /\ WF_vars(Done /\ OthersIdle)

FairSpec == Init /\ [][Next]_vars /\ Fairness

Settled(op) == promise[op] \in {"fulfilled", "rejected"}

\* C14: with the timer firing again and again, every call handed to
\* withRateLimit has its operation executed and its promise settled, also
\* while other calls keep coming; and the operation of a call that had to
\* queue stays unexecuted as long as the call is in the queue, which it
\* leaves only in a step that resets the count of the window.
C14_EventuallySettled ==
    /\ \A op \in Ops : (pc[op] = "await" /\ runs[op] = 0) ~> (runs[op] = 1)
    /\ \A op \in Ops : (promise[op] = "pending") ~> Settled(op)
    /\ [][\A op \in Ops :
            InQueue(op) => /\ runs'[op] = 0
                           /\ ~Settled(op)'
                           /\ ~InQueue(op)' => startedThisWindow' = 0]_vars

\* C14 witness: a call that had to queue got its operation executed and
\* its promise fulfilled, after a reset, while the other call was waiting
\* for its answer
C14_QueuedOpSettled ==
    \E op \in Ops :
        /\ wasQueued[op]
        /\ runs[op] = 1
        /\ promise[op] = "fulfilled"
        /\ inflight # {}
        /\ startedThisWindow < MAX_REQUESTS_PER_MINUTE

(***************************************************************************)
(* The interval callback on a long queue.  The states it starts in are the *)
(* ones the program has between two tasks: no promise job pending, and     *)
(* either nothing queued or a full window with the calls 1..q queued in    *)
(* that order.  Only the calls in Ops are followed further.                *)
(***************************************************************************)
\* Longest queue the interval callback is run on.
MaxQueue == 45

TickInit ==
    /\ requestTimer = TRUE
    /\ microtasks = <<>>
    /\ \E q \in 0..MaxQueue :
        /\ requestQueue = [i \in 1..q |-> i]
        /\ requestsThisMinute \in (IF q = 0 THEN 0..MAX_REQUESTS_PER_MINUTE
                                   ELSE {MAX_REQUESTS_PER_MINUTE})
        /\ pc = [o \in Ops |-> IF o <= q THEN "await" ELSE "idle"]
        /\ promise = [o \in Ops |-> IF o <= q THEN "pending" ELSE "none"]
        /\ wasQueued = [o \in Ops |-> o <= q]
    /\ waiting = requestQueue
    /\ startedThisWindow = requestsThisMinute
    /\ runs = [o \in Ops |-> 0]
    /\ inflight = {}
    /\ outcome = [o \in Ops |-> "none"]
    /\ value = [o \in Ops |-> "none"]
    /\ ret = [o \in Ops |-> "none"]
    /\ half = 1
    /\ markStarts = 0
    /\ MergeIdle
    /\ ContentIdle
    /\ RankIdle

TickNext == TimerTick /\ OthersIdle

TickSpec == TickInit /\ [][TickNext]_vars

Min(a, b) == IF a <= b THEN a ELSE b

\* C15: a timer tick with q calls queued leaves the counter at min(q, 40),
\* has started exactly the first min(q, 40) calls of the queue, in their
\* order, and leaves the other calls queued in their order.
C15_TickDrains ==
    [][TimerTick =>
        LET q == Len(requestQueue)
            k == Min(q, MAX_REQUESTS_PER_MINUTE)
        IN /\ requestsThisMinute' = k
           /\ requestQueue' = SubSeq(requestQueue, k + 1, q)
           /\ microtasks' = [i \in 1..k |-> Job(requestQueue[i], "fn")]]_vars

\* C15 witness: a tick on more than 40 queued calls has started 40 of them
\* and left the others queued
C15_MoreThanQuotaQueued ==
    /\ startedThisWindow = 0
    /\ requestsThisMinute = MAX_REQUESTS_PER_MINUTE
    /\ Len(microtasks) = MAX_REQUESTS_PER_MINUTE
    /\ Len(requestQueue) >= 2
    /\ Head(requestQueue) = MAX_REQUESTS_PER_MINUTE + 1

(***************************************************************************)
(* The same program observed against a clock.  The interval callback runs  *)
(* every 60 seconds (line 66).  The mark is an instant chosen freely       *)
(* inside each period, at the same offset in every period, so two          *)
(* consecutive marks are 60 seconds apart and exactly one reset lies       *)
(* between them.                                                           *)
(***************************************************************************)
Mark ==
    /\ requestTimer
    /\ microtasks = <<>>
    /\ half = 1
    /\ half' = 2
    /\ markStarts' = 0
    /\ UNCHANGED <<schedVars, callVars, histVars>>

ClockNext ==
    \/ (\E op \in Ops : WithRateLimit(op)) /\ UNCHANGED <<clockVars, mergeVars, normVars, rankVars>>
    \/ RunFn /\ half' = half
             /\ markStarts' = (IF half = 2 THEN markStarts + 1 ELSE markStarts)
             /\ UNCHANGED <<mergeVars, normVars, rankVars>>
    \/ (\E op \in Ops, o \in {"fulfilled", "rejected"} : Response(op, o))
            /\ UNCHANGED <<clockVars, mergeVars, normVars, rankVars>>
    \/ ThenResolve /\ UNCHANGED <<clockVars, mergeVars, normVars, rankVars>>
    \/ CatchReject /\ UNCHANGED <<clockVars, mergeVars, normVars, rankVars>>
    \/ Resume /\ UNCHANGED <<clockVars, mergeVars, normVars, rankVars>>
    \/ Done /\ UNCHANGED <<clockVars, mergeVars, normVars, rankVars>>
    \/ TimerTick /\ half = 2 /\ half' = 1 /\ markStarts' = markStarts
                 /\ UNCHANGED <<mergeVars, normVars, rankVars>>
    \/ Mark /\ UNCHANGED <<mergeVars, normVars, rankVars>>

ClockSpec == Init /\ [][ClockNext]_vars

\* Operations started in the interval from the last mark to now, which is
\* shorter than 60 seconds.
Rolling60 == IF half = 1 THEN markStarts + startedThisWindow ELSE markStarts

\* C2 as stated: at most 40 operations start in any 60-second interval
C2_RollingWindow == Rolling60 <= MAX_REQUESTS_PER_MINUTE

\* C2 amended: an interval of at most 60 seconds that contains no reset has
\* at most 40 starts; one that contains a reset has at most 40 before the
\* reset and at most 40 after it.
C2_FixedWindow ==
    IF half = 2
    THEN Rolling60 <= MAX_REQUESTS_PER_MINUTE
    ELSE /\ markStarts <= MAX_REQUESTS_PER_MINUTE
         /\ Rolling60 - markStarts <= MAX_REQUESTS_PER_MINUTE
         /\ Rolling60 <= 2 * MAX_REQUESTS_PER_MINUTE

\* C2 witness: 40 operations started after the mark, the reset came, and 40
\* more started before the next mark: 80 in less than 60 seconds
C2_TwiceTheQuota ==
    /\ half = 1
    /\ markStarts = MAX_REQUESTS_PER_MINUTE
    /\ Rolling60 = 2 * MAX_REQUESTS_PER_MINUTE

(***************************************************************************)
(* mergeSubtitles (lines 245-303) and parseTimeToMs (lines 229-241).       *)
(*                                                                         *)
(* A time string is a record: fmt "srt" for a string that matches          *)
(* \d{2}:\d{2}:\d{2},\d{3} with its four numbers, fmt "dot" for a string   *)
(* with the wrong separator such as "00:00:01.500", fmt "none" for a       *)
(* missing or empty string.  A text is a sequence of character codes.      *)
(***************************************************************************)
mergeThresholdMs == 500

\* Longest main and translation sequences tried.
MaxMain == 2
MaxTrans == 2

Stamp(h, m, sec, ms) == [fmt |-> "srt", h |-> h, m |-> m, s |-> sec, ms |-> ms]
NoStamp == [fmt |-> "none", h |-> 0, m |-> 0, s |-> 0, ms |-> 0]
DotStamp == [fmt |-> "dot", h |-> 0, m |-> 0, s |-> 1, ms |-> 500]

\* lines 229-241
parseTimeToMs(ts) ==
    IF ts.fmt # "srt" THEN 0                                   \* lines 230-233
    ELSE (ts.h * 3600 + ts.m * 60 + ts.s) * 1000 + ts.ms       \* line 240

\* lines 253 and 261: !sub.startTime || !sub.endTime
MissingTiming(cue) == cue.startTime.fmt = "none" \/ cue.endTime.fmt = "none"

\* line 289: text.replace(/\r?\n|\r/g, ' ') on character codes
RECURSIVE Flatten(_)
Flatten(t) ==
    IF t = <<>> THEN <<>>
    ELSE IF Len(t) >= 2 /\ t[1] = 13 /\ t[2] = 10 THEN <<32>> \o Flatten(SubSeq(t, 3, Len(t)))
    ELSE IF t[1] = 10 \/ t[1] = 13 THEN <<32>> \o Flatten(Tail(t))
    ELSE <<t[1]>> \o Flatten(Tail(t))

\* lines 267-272: the four overlap tests and the distance of the starts
TimeDiff(mainCue, transCue) ==
    LET d == parseTimeToMs(mainCue.startTime) - parseTimeToMs(transCue.startTime)
    IN IF d < 0 THEN -d ELSE d

IsMatch(mainCue, transCue) ==
    LET mainStartTime == parseTimeToMs(mainCue.startTime)
        mainEndTime == parseTimeToMs(mainCue.endTime)
        transStartTime == parseTimeToMs(transCue.startTime)
        transEndTime == parseTimeToMs(transCue.endTime)
        startsOverlap == transStartTime >= mainStartTime /\ transStartTime < mainEndTime
        endsOverlap == transEndTime > mainStartTime /\ transEndTime <= mainEndTime
        isWithin == transStartTime >= mainStartTime /\ transEndTime <= mainEndTime
        contains == transStartTime < mainStartTime /\ transEndTime > mainEndTime
    IN startsOverlap \/ endsOverlap \/ isWithin \/ contains
        \/ TimeDiff(mainCue, transCue) < mergeThresholdMs

\* line 273 with <= : the last of several equally near cues wins
Closer_orEqual(timeDiff, st) == st.best = 0 \/ timeDiff <= st.smallest

\* line 273: timeDiff < smallestTimeDiff, which starts as Infinity (line 252)
Closer(timeDiff, st) == st.best = 0 \/ timeDiff < st.smallest

\* lines 259-286: the inner for loop from index i on.  st holds
\* foundMatch, bestMatchIndex (0 for -1), smallestTimeDiff and transIndex.
RECURSIVE ScanFrom(_, _, _, _)
ScanFrom(mainCue, trans, i, st) ==
    IF i > Len(trans) THEN st
    ELSE IF MissingTiming(trans[i]) THEN ScanFrom(mainCue, trans, i + 1, st)   \* 261-264
    ELSE
        LET transStartTime == parseTimeToMs(trans[i].startTime)
            transEndTime == parseTimeToMs(trans[i].endTime)
            mainStartTime == parseTimeToMs(mainCue.startTime)
            mainEndTime == parseTimeToMs(mainCue.endTime)
            timeDiff == TimeDiff(mainCue, trans[i])
            match == IsMatch(mainCue, trans[i])
            st1 == IF match
                   THEN IF Closer(timeDiff, st)
                        THEN [st EXCEPT !.found = TRUE, !.best = i, !.smallest = timeDiff]
                        ELSE [st EXCEPT !.found = TRUE]
                   ELSE st
            st2 == IF transEndTime < mainStartTime - mergeThresholdMs * 2 /\ i = st1.tIdx
                   THEN [st1 EXCEPT !.tIdx = i + 1]                             \* 283-285
                   ELSE st1
        IN IF ~match /\ transStartTime > mainEndTime + mergeThresholdMs
           THEN st1                                                            \* 278-282
           ELSE ScanFrom(mainCue, trans, i + 1, st2)

\* a scan that starts over at the first translation cue
Scan_restart(mainCue, trans, tIdx) ==
    ScanFrom(mainCue, trans, 1, [found |-> FALSE, best |-> 0, smallest |-> 0, tIdx |-> 1])

\* a scan whose lower bound is one cue too far
Scan_skipFirst(mainCue, trans, tIdx) ==
    ScanFrom(mainCue, trans, tIdx + 1, [found |-> FALSE, best |-> 0, smallest |-> 0, tIdx |-> tIdx])

\* lines 250-252 and 259: one scan, started at transIndex
Scan(mainCue, trans, tIdx) ==
    ScanFrom(mainCue, trans, tIdx, [found |-> FALSE, best |-> 0, smallest |-> 0, tIdx |-> tIdx])

\* an emit that falls back to the first translation cue when nothing matched
EmitText_first(best, trans) ==
    IF best # 0 THEN Flatten(trans[best].text)
    ELSE IF trans # <<>> THEN Flatten(trans[1].text) ELSE <<>>

\* lines 287-299: the text of the emitted cue
EmitText(best, trans) ==
    IF best # 0 THEN Flatten(trans[best].text)     \* lines 288-289
    ELSE <<>>                                      \* line 297

\* a merge that emits the matched translation cue, timing and all
Emit_transTiming(out, mainCue, best, trans) ==
    IF best # 0
    THEN Append(out, [trans[best] EXCEPT !.text = EmitText(best, trans)])
    ELSE Append(out, [mainCue EXCEPT !.text = <<>>])

\* a merge that drops the main cues that found no translation
Emit_dropUnmatched(out, mainCue, best, trans) ==
    IF best # 0
    THEN Append(out, [mainCue EXCEPT !.text = EmitText(best, trans)])
    ELSE out

\* lines 290-298: mergedSubs.push({...mainSub, text})
Emit(out, mainCue, best, trans) ==
    Append(out, [mainCue EXCEPT !.text = EmitText(best, trans)])

\* The cues tried: the timing of a cue is one of these shapes.
CueShapes == {
    <<Stamp(0, 0, 0, 0), Stamp(0, 0, 1, 0)>>,
    <<Stamp(0, 0, 0, 0), Stamp(0, 0, 2, 0)>>,
    <<Stamp(0, 0, 0, 600), Stamp(0, 0, 0, 900)>>,
    <<Stamp(0, 0, 1, 0), Stamp(0, 0, 2, 0)>>,
    <<Stamp(0, 1, 0, 0), Stamp(0, 1, 1, 0)>>,
    <<NoStamp, Stamp(0, 0, 1, 0)>>,
    <<DotStamp, DotStamp>> }

\* The text of the k-th main cue and of the k-th translation cue: all
\* different, and the translation texts hold the three kinds of line break.
MainText(k) == <<109, 48 + k>>
TransText(k) == <<116, 48 + k>> \o
    (CASE k % 3 = 1 -> <<10>> [] k % 3 = 2 -> <<13, 10>> [] OTHER -> <<13>>)
    \o <<48 + k>>

\* texts is the function from a position to the text of the cue there
CueSeqs(n, texts) ==
    UNION {{[k \in 1..len |-> [startTime |-> f[k][1], endTime |-> f[k][2], text |-> texts[k]]] :
                f \in [1..len -> CueShapes]} : len \in 0..n}

MergeInit ==
    /\ SchedInit
    /\ ContentIdle
    /\ RankIdle
    /\ mainSubs \in CueSeqs(MaxMain, [k \in 1..MaxMain |-> MainText(k)])
    /\ transSubs \in CueSeqs(MaxTrans, [k \in 1..MaxTrans |-> TransText(k)])
    /\ mergedSubs = <<>>
    /\ transIndex = 1
    /\ mainPos = 1

\* lines 249-300: one iteration of the outer for loop
MergeStep ==
    /\ mainPos <= Len(mainSubs)
    /\ LET mainSub == mainSubs[mainPos] IN
        IF MissingTiming(mainSub)
        THEN UNCHANGED <<mergedSubs, transIndex>>                   \* lines 253-256
        ELSE LET st == Scan(mainSub, transSubs, transIndex) IN
            /\ mergedSubs' = Emit(mergedSubs, mainSub, st.best, transSubs)
            /\ transIndex' = st.tIdx
    /\ mainPos' = mainPos + 1
    /\ UNCHANGED <<mainSubs, transSubs>>
    /\ UNCHANGED <<schedVars, callVars, histVars, clockVars, normVars, rankVars>>

MergeNext == MergeStep

MergeSpec == MergeInit /\ [][MergeNext]_vars

(***************************************************************************)
(* Claims about mergeSubtitles.                                            *)
(***************************************************************************)
MergeDone == mainPos = Len(mainSubs) + 1
StartMs(cue) == parseTimeToMs(cue.startTime)
EndMs(cue) == parseTimeToMs(cue.endTime)

\* the position in mergedSubs of the cue emitted for main cue i
OutIndex(i) == Cardinality({k \in 1..i : ~MissingTiming(mainSubs[k])})

WellFormed(cue) ==
    /\ cue.startTime.fmt = "srt"
    /\ cue.endTime.fmt = "srt"
    /\ EndMs(cue) > StartMs(cue)

\* a sequence of well-formed cues ordered by non-decreasing start time
Ordered(subs) ==
    /\ \A k \in 1..Len(subs) : WellFormed(subs[k])
    /\ \A k \in 1..Len(subs) - 1 : StartMs(subs[k]) <= StartMs(subs[k + 1])

SameInterval(a, b) == StartMs(a) = StartMs(b) /\ EndMs(a) = EndMs(b)

\* C4 as stated: a finished merge returns as many cues as there are main cues
C4_CountAlways == MergeDone => Len(mergedSubs) = Len(mainSubs)

\* C4 amended: the merge emits exactly one cue for every main cue that has
\* both timing strings and none for a main cue that lacks one, so the
\* number of merged cues is the number of main cues with timing.
C4_CountWithTiming ==
    Len(mergedSubs) = Cardinality({k \in 1..mainPos - 1 : ~MissingTiming(mainSubs[k])})

\* C4 witness: a finished merge of a main cue without start time and a main
\* cue that matched nothing: one cue out, with empty text
C4_OneDropped ==
    /\ MergeDone
    /\ Len(mainSubs) = 2
    /\ Len(mergedSubs) = 1
    /\ mergedSubs[1].text = <<>>

\* C5 as stated: a translation cue whose interval equals a main cue's is
\* the one whose (flattened) text the main cue gets, whatever the others
C5_ExactAlwaysSelected ==
    MergeDone =>
        \A i \in 1..Len(mainSubs), j \in 1..Len(transSubs) :
            (/\ ~MissingTiming(mainSubs[i])
             /\ ~MissingTiming(transSubs[j])
             /\ SameInterval(mainSubs[i], transSubs[j]))
            => mergedSubs[OutIndex(i)].text = Flatten(transSubs[j].text)

\* the first translation cue that starts when main cue i starts
FirstSameStart(i) ==
    CHOOSE j \in 1..Len(transSubs) :
        /\ StartMs(transSubs[j]) = StartMs(mainSubs[i])
        /\ \A k \in 1..j - 1 : StartMs(transSubs[k]) # StartMs(mainSubs[i])

\* C5 amended: when both sequences hold well-formed cues ordered by start
\* time and a translation cue's interval equals a main cue's, the main cue
\* gets the flattened text of the first translation cue that starts at the
\* same time: the equal cue itself unless an earlier one shares its start.
C5_ExactSelectedUnlessTie ==
    (MergeDone /\ Ordered(mainSubs) /\ Ordered(transSubs)) =>
        \A i \in 1..Len(mainSubs), j \in 1..Len(transSubs) :
            SameInterval(mainSubs[i], transSubs[j])
            => mergedSubs[i].text = Flatten(transSubs[FirstSameStart(i)].text)

\* C5 witness: the cue with the equal interval comes second of two
\* translation cues with the same start, and the first one was selected
C5_TieBeforeExact ==
    /\ MergeDone /\ Ordered(mainSubs) /\ Ordered(transSubs)
    /\ Len(mainSubs) >= 1 /\ Len(transSubs) = 2
    /\ SameInterval(mainSubs[1], transSubs[2])
    /\ ~SameInterval(mainSubs[1], transSubs[1])
    /\ mergedSubs[1].text = Flatten(transSubs[1].text)

\* the claim's own wording of "overlaps or starts within the threshold"
OverlapsOrNear(m, t) ==
    \/ StartMs(m) <= StartMs(t) /\ StartMs(t) < EndMs(m)
    \/ StartMs(m) < EndMs(t) /\ EndMs(t) <= EndMs(m)
    \/ StartMs(m) <= StartMs(t) /\ EndMs(t) <= EndMs(m)
    \/ StartMs(t) < StartMs(m) /\ EndMs(m) < EndMs(t)
    \/ (StartMs(m) - StartMs(t) < mergeThresholdMs
        /\ StartMs(t) - StartMs(m) < mergeThresholdMs)

\* C6: a main cue that no translation cue with timing overlaps or starts
\* within mergeThresholdMs of is emitted with the empty text.
C6_NoMatchEmptyText ==
    \A i \in 1..mainPos - 1 :
        (/\ ~MissingTiming(mainSubs[i])
         /\ \A j \in 1..Len(transSubs) :
                MissingTiming(transSubs[j]) \/ ~OverlapsOrNear(mainSubs[i], transSubs[j]))
        => mergedSubs[OutIndex(i)].text = <<>>

\* C6 witness: a main cue emitted with empty text although translation cues
\* with timing were there; none of them overlaps it or starts near it
C6_GapTooLarge ==
    /\ MergeDone
    /\ Len(mainSubs) = 1 /\ Len(transSubs) = 2
    /\ ~MissingTiming(mainSubs[1])
    /\ \A j \in 1..2 : WellFormed(transSubs[j])
    /\ Len(mergedSubs) = 1 /\ mergedSubs[1].text = <<>>

\* the translation cues that overlap main cue i or start near it
Matching(i) ==
    {j \in 1..Len(transSubs) :
        ~MissingTiming(transSubs[j]) /\ OverlapsOrNear(mainSubs[i], transSubs[j])}

StartGap(i, j) ==
    IF StartMs(mainSubs[i]) >= StartMs(transSubs[j])
    THEN StartMs(mainSubs[i]) - StartMs(transSubs[j])
    ELSE StartMs(transSubs[j]) - StartMs(mainSubs[i])

\* what a scan of all translation cues chooses for main cue i: the
\* lowest-index one among the matching cues nearest in start, 0 for none
ExhaustiveBest(i) ==
    IF Matching(i) = {} THEN 0
    ELSE CHOOSE j \in Matching(i) :
            \A k \in Matching(i) :
                \/ StartGap(i, j) < StartGap(i, k)
                \/ StartGap(i, j) = StartGap(i, k) /\ j <= k

\* C12: when both sequences hold well-formed cues ordered by start time,
\* every emitted cue carries the text of the cue an exhaustive scan of all
\* translation cues chooses, or the empty text when that scan finds none.
C12_MergeEqualsExhaustive ==
    (Ordered(mainSubs) /\ Ordered(transSubs)) =>
        \A i \in 1..mainPos - 1 :
            mergedSubs[OutIndex(i)].text =
                (IF ExhaustiveBest(i) = 0 THEN <<>>
                 ELSE Flatten(transSubs[ExhaustiveBest(i)].text))

\* C12 witness: ordered sequences where the lower bound moved past the
\* first translation cue and the last main cue still got its text from a
\* later one
C12_AdvancedAndMatched ==
    /\ MergeDone
    /\ Ordered(mainSubs) /\ Ordered(transSubs)
    /\ Len(mainSubs) = 2 /\ Len(transSubs) = 2
    /\ transIndex = 2
    /\ mergedSubs[1].text # <<>>
    /\ mergedSubs[2].text = Flatten(transSubs[2].text)

\* a cue whose two timing strings are there but do not have the pattern of
\* line 230, so that both parse to 0
ZeroTimed(cue) ==
    /\ cue.startTime.fmt = "dot"
    /\ cue.endTime.fmt = "dot"

\* C13 as stated: a translation cue with malformed timing strings is never
\* the cue whose text a main cue is emitted with.
C13_ZeroTimedNeverSelected ==
    \A i \in 1..mainPos - 1, j \in 1..Len(transSubs) :
        (~MissingTiming(mainSubs[i]) /\ ZeroTimed(transSubs[j]))
        => mergedSubs[OutIndex(i)].text # Flatten(transSubs[j].text)

\* the step of the outer loop that scans for the main cue at mainPos
ScanStep == mainPos' = mainPos + 1 /\ ~MissingTiming(mainSubs[mainPos])

\* another main cue with timing comes after the one at mainPos
MoreScansFollow ==
    \E k \in mainPos + 1..Len(mainSubs) : ~MissingTiming(mainSubs[k])

\* C16 as stated: transIndex never decreases, and a translation cue is the
\* lower bound of at most one scan: when another scan follows, transIndex
\* has moved past the cue this scan started at.
C16_OneScanPerLowerBound ==
    [][/\ transIndex' >= transIndex
       /\ (ScanStep /\ MoreScansFollow /\ transIndex <= Len(transSubs))
            => transIndex' > transIndex]_vars

\* C16: transIndex never decreases; it moves past a translation cue only
\* when that cue has timing and ends more than two thresholds before the
\* start of the main cue being scanned; and the text a scan emits never
\* comes from a cue that transIndex had passed before the scan.  (A cue
\* stays the lower bound of every scan until it is that far behind.)
C16_TransIndexOnlyAdvances ==
    [][/\ transIndex' >= transIndex
       /\ \A j \in transIndex..transIndex' - 1 :
            /\ ~MissingTiming(transSubs[j])
            /\ EndMs(transSubs[j]) < StartMs(mainSubs[mainPos]) - 2 * mergeThresholdMs
       /\ ScanStep =>
            \A j \in 1..transIndex - 1 :
                mergedSubs'[Len(mergedSubs')].text # Flatten(transSubs[j].text)]_vars

\* C16 witness: two main cues were scanned, transIndex never moved, and
\* both got the text of the first translation cue, the lower bound of both
\* scans
C16_SameLowerBoundTwice ==
    /\ MergeDone
    /\ Len(mainSubs) = 2 /\ Len(mergedSubs) = 2
    /\ transSubs # <<>>
    /\ transIndex = 1
    /\ mergedSubs[1].text = Flatten(transSubs[1].text)
    /\ mergedSubs[2].text = Flatten(transSubs[1].text)

\* C17: the cues emitted so far are, in the order of the main track, one
\* for every main cue that has both timing strings (the test of line 253),
\* each with the start and end strings of its main cue; and no step of the
\* merge changes either input sequence.
C17_OnlyTextChanges ==
    /\ [](/\ Len(mergedSubs) = Cardinality({k \in 1..mainPos - 1 : ~MissingTiming(mainSubs[k])})
          /\ \A i \in 1..mainPos - 1 :
                ~MissingTiming(mainSubs[i]) =>
                    /\ mergedSubs[OutIndex(i)].startTime = mainSubs[i].startTime
                    /\ mergedSubs[OutIndex(i)].endTime = mainSubs[i].endTime)
    /\ [][mainSubs' = mainSubs /\ transSubs' = transSubs]_vars

\* C17 witness: the first main cue got the text of a translation cue that
\* ends at another time and kept its own end, the second one found no
\* match and was emitted with its own timing too
C17_TimingKept ==
    /\ MergeDone
    /\ Len(mainSubs) = 2 /\ Len(mergedSubs) = 2
    /\ transSubs # <<>>
    /\ mergedSubs[1].text = Flatten(transSubs[1].text)
    /\ transSubs[1].endTime # mainSubs[1].endTime
    /\ mergedSubs[1].endTime = mainSubs[1].endTime
    /\ mergedSubs[2].text = <<>>
    /\ mergedSubs[2].startTime = mainSubs[2].startTime

(***************************************************************************)
(* The encoding normalizer, fetchSubtitleContent (lines 147-227).          *)
(* A byte is a number, a buffer a sequence of bytes.  The url is kept as   *)
(* the sequence of its pieces between dots.  A decoded text is kept as the *)
(* codec and the bytes it was decoded from, with the byte order marks that *)
(* the decoding removed taken out of the bytes.                            *)
(***************************************************************************)
\* Longest answer of the server, in bytes.
MaxBytes == 4

\* 8 deflate method, 31 139 gzip magic, 65 'A', 239 187 191 the UTF-8 BOM
Bytes == {8, 31, 65, 139, 187, 191, 239}

Buffers ==
    UNION {[1..n -> Bytes] : n \in 0..MaxBytes}

Urls == {<<"sub", "srt">>, <<"sub", "gz">>, <<"sub", "gz", "srt">>}

\* what chardet.detect answers with, "null" for no result
RawLabels ==
    {"windows-1254", "ISO-8859-9", "windows-1252", "UTF-16LE", "UTF-16BE",
     "ASCII", "UTF-8", "Shift_JIS", "ISO-2022-JP", "null"}

\* line 156: url.endsWith('.gz')
EndsWithGz(u) == Len(u) >= 2 /\ u[Len(u)] = "gz"

StartsWith(b, prefix) ==
    Len(b) >= Len(prefix) /\ SubSeq(b, 1, Len(prefix)) = prefix

NeedsGunzip_magicOnly(u, b) == StartsWith(b, <<31, 139>>)

\* line 156
NeedsGunzip(u, b) ==
    EndsWithGz(u) \/ (Len(b) > 2 /\ b[1] = 31 /\ b[2] = 139)

\* line 159: pako.ungzip.  A gzip stream is the magic number, the method
\* byte 8 and the member; the member is kept as the bytes it inflates to.
\* Any other input makes ungzip throw.
CanUngzip(b) == StartsWith(b, <<31, 139, 8>>)

Ungzip(b) == SubSeq(b, 4, Len(b))

\* line 172: toLowerCase on the labels
ToLowerCase(label) ==
    CASE label = "ISO-8859-9" -> "iso-8859-9"
      [] label = "UTF-16LE" -> "utf-16le"
      [] label = "UTF-16BE" -> "utf-16be"
      [] label = "ASCII" -> "ascii"
      [] label = "UTF-8" -> "utf-8"
      [] label = "Shift_JIS" -> "shift_jis"
      [] label = "ISO-2022-JP" -> "iso-2022-jp"
      [] OTHER -> label

\* line 183: iconv.encodingExists, on the names that occur here; iconv-lite
\* has no ISO-2022 codec
EncodingExists(enc) ==
    enc \in {"utf8", "utf-8", "ascii", "latin1", "win1254", "windows-1254",
             "iso88599", "iso-8859-9", "win1252", "windows-1252", "utf16le",
             "utf-16le", "utf16be", "utf-16be", "shift_jis"}

PickCodec_noExistsCheck(normalizedEncoding) ==
    CASE normalizedEncoding = "windows-1254" -> "win1254"
      [] normalizedEncoding = "iso-8859-9" -> "iso88599"
      [] normalizedEncoding = "windows-1252" -> "win1252"
      [] normalizedEncoding = "utf-16le" -> "utf16le"
      [] normalizedEncoding = "utf-16be" -> "utf16be"
      [] normalizedEncoding \in {"ascii", "us-ascii", "utf-8"} -> "utf8"
      [] OTHER -> normalizedEncoding

\* lines 173-189: the switch
PickCodec(normalizedEncoding) ==
    CASE normalizedEncoding = "windows-1254" -> "win1254"
      [] normalizedEncoding = "iso-8859-9" -> "iso88599"
      [] normalizedEncoding = "windows-1252" -> "win1252"
      [] normalizedEncoding = "utf-16le" -> "utf16le"
      [] normalizedEncoding = "utf-16be" -> "utf16be"
      [] normalizedEncoding \in {"ascii", "us-ascii"} -> "utf8"
      [] normalizedEncoding = "utf-8" -> "utf8"
      [] OTHER -> IF EncodingExists(normalizedEncoding)
                  THEN normalizedEncoding
                  ELSE "utf8"

StripBom(b) ==
    IF StartsWith(b, <<239, 187, 191>>) THEN SubSeq(b, 4, Len(b)) ELSE b

\* lines 202 and 212: iconv.decode, which takes a leading byte order mark
\* out of what a UTF-8 decoder gives
IconvDecode(b, codec) ==
    [codec |-> codec, bytes |-> IF codec = "utf8" THEN StripBom(b) ELSE b]

\* line 204: subtitleText.charCodeAt(0) === 0xFEFF, for a utf8 text
FirstIsBom(text) == StartsWith(text.bytes, <<239, 187, 191>>)

ContentInit ==
    /\ SchedInit
    /\ MergeIdle
    /\ RankIdle
    /\ url \in Urls
    /\ data \in Buffers
    /\ contentBuffer = <<>>
    /\ rawDetectedEncoding = "null"
    /\ detectedEncoding = "utf8"
    /\ subtitleText = [codec |-> "none", bytes |-> <<>>]
    /\ contentPc = "get"
    /\ contentRet = "none"
    /\ gunzip = "none"

\* lines 150-154, and lines 220-226 when the request fails
AxiosGet(ok) ==
    /\ contentPc = "get"
    /\ IF ok
        THEN /\ contentBuffer' = data
             /\ contentPc' = "gunzip"
             /\ UNCHANGED contentRet
        ELSE /\ contentPc' = "done"
             /\ contentRet' = "null"
             /\ UNCHANGED contentBuffer
    /\ UNCHANGED <<url, data, rawDetectedEncoding, detectedEncoding, subtitleText, gunzip>>

\* lines 156-165
Gunzip ==
    /\ contentPc = "gunzip"
    /\ IF NeedsGunzip(url, contentBuffer)
        THEN IF CanUngzip(contentBuffer)
            THEN /\ contentBuffer' = Ungzip(contentBuffer)
                 /\ gunzip' = "done"
                 /\ contentPc' = "detect"
                 /\ UNCHANGED contentRet
            ELSE /\ gunzip' = "failed"                              \* lines 161-164
                 /\ contentPc' = "done"
                 /\ contentRet' = "null"
                 /\ UNCHANGED contentBuffer
        ELSE /\ gunzip' = "skipped"
             /\ contentPc' = "detect"
             /\ UNCHANGED <<contentBuffer, contentRet>>
    /\ UNCHANGED <<url, data, rawDetectedEncoding, detectedEncoding, subtitleText>>

\* lines 166-200; threw: chardet.detect raised, which line 198 catches
Detect(label, threw) ==
    /\ contentPc = "detect"
    /\ IF threw
        THEN UNCHANGED <<rawDetectedEncoding, detectedEncoding, contentBuffer>>
        ELSE /\ rawDetectedEncoding' = label
             /\ IF label # "null"
                 THEN /\ detectedEncoding' = PickCodec(ToLowerCase(label))
                      /\ UNCHANGED contentBuffer
                 ELSE /\ contentBuffer' =
                            (IF Len(contentBuffer) > 3
                                /\ contentBuffer[1] = 239
                                /\ contentBuffer[2] = 187
                                /\ contentBuffer[3] = 191
                             THEN SubSeq(contentBuffer, 4, Len(contentBuffer))
                             ELSE contentBuffer)
                      /\ UNCHANGED detectedEncoding
    /\ contentPc' = "decode"
    /\ UNCHANGED <<url, data, subtitleText, contentRet, gunzip>>

\* lines 201-219
Decode ==
    /\ contentPc = "decode"
    /\ IF EncodingExists(detectedEncoding)
        THEN LET text == IconvDecode(contentBuffer, detectedEncoding) IN
            subtitleText' =
                (IF detectedEncoding = "utf8" /\ FirstIsBom(text)
                 THEN [text EXCEPT !.bytes = SubSeq(text.bytes, 4, Len(text.bytes))]
                 ELSE text)
        ELSE subtitleText' = IconvDecode(contentBuffer, "latin1")   \* lines 208-212
    /\ contentRet' = "text"
    /\ contentPc' = "done"
    /\ UNCHANGED <<url, data, contentBuffer, rawDetectedEncoding, detectedEncoding, gunzip>>

ContentNext ==
    \/ (\E ok \in BOOLEAN : AxiosGet(ok))
            /\ UNCHANGED <<schedVars, callVars, histVars, clockVars, mergeVars, rankVars>>
    \/ Gunzip /\ UNCHANGED <<schedVars, callVars, histVars, clockVars, mergeVars, rankVars>>
    \/ (\E label \in RawLabels, threw \in BOOLEAN : Detect(label, threw))
            /\ UNCHANGED <<schedVars, callVars, histVars, clockVars, mergeVars, rankVars>>
    \/ Decode /\ UNCHANGED <<schedVars, callVars, histVars, clockVars, mergeVars, rankVars>>

ContentSpec == ContentInit /\ [][ContentNext]_vars

(***************************************************************************)
(* Claims about the encoding normalizer.                                   *)
(***************************************************************************)
\* the labels the switch of lines 174-181 names
TableLabels ==
    {"windows-1254", "iso-8859-9", "windows-1252", "utf-16le", "utf-16be",
     "ascii", "us-ascii", "utf-8"}

ContentDecoded == contentPc = "done" /\ contentRet = "text"

\* C7 as stated: when detection gives a label outside the table, or no
\* result, the text is decoded with utf8.
C7_FallbackUtf8 ==
    (/\ ContentDecoded
     /\ \/ rawDetectedEncoding = "null"
        \/ ToLowerCase(rawDetectedEncoding) \notin TableLabels)
    => subtitleText.codec = "utf8"

\* C7: when detection gives no result the text is decoded with utf8; when it
\* gives a label outside the table the text is decoded with the lowercased
\* label itself if the decoding library has that encoding, and with utf8
\* only if it has not.
C7_FallbackUnlessSupported ==
    ContentDecoded =>
        LET label == ToLowerCase(rawDetectedEncoding) IN
        /\ rawDetectedEncoding = "null" => subtitleText.codec = "utf8"
        /\ (rawDetectedEncoding # "null" /\ label \notin TableLabels)
            => subtitleText.codec = (IF EncodingExists(label) THEN label ELSE "utf8")

\* C7 witness: a label outside the table that the library has was detected
\* and the text was decoded with it, not with utf8
C7_SupportedLabelKept ==
    /\ ContentDecoded
    /\ rawDetectedEncoding = "Shift_JIS"
    /\ subtitleText.codec = "shift_jis"

\* C8 as stated: decompression is tried on exactly the inputs that begin
\* with the gzip magic number 1F 8B; any other input bypasses it.
C8_ExactlyGzip ==
    gunzip # "none" =>
        IF StartsWith(data, <<31, 139>>)
        THEN gunzip \in {"done", "failed"}
        ELSE gunzip = "skipped"

\* C8: decompression is tried exactly when the url ends in .gz or the input
\* is longer than two bytes and begins with 1F 8B.  Then either the bytes
\* handed to detection are the decompressed ones or the call has ended
\* with null.  Every other input is handed to detection unchanged.
C8_GunzipWhenHintedOrMagic ==
    gunzip # "none" =>
        IF EndsWithGz(url) \/ (Len(data) > 2 /\ StartsWith(data, <<31, 139>>))
        THEN \/ /\ gunzip = "done"
                /\ contentPc = "detect" => contentBuffer = SubSeq(data, 4, Len(data))
             \/ /\ gunzip = "failed"
                /\ contentPc = "done"
                /\ contentRet = "null"
        ELSE /\ gunzip = "skipped"
             /\ contentPc = "detect" => contentBuffer = data

\* C8 witness: an input without the magic number, fetched from a url ending
\* in .gz, ended in a decompression failure
C8_HintedPlainFails ==
    /\ contentPc = "done"
    /\ EndsWithGz(url)
    /\ data # <<>>
    /\ ~StartsWith(data, <<31, 139>>)
    /\ gunzip = "failed"
    /\ contentRet = "null"

(***************************************************************************)
(* The ranking of a search response, fetchAndSelectSubtitle after its      *)
(* await (lines 101-138).  A string is kept as the sequence of its         *)
(* character codes; IDSubtitleFile is the position in the response.        *)
(***************************************************************************)
\* Longest search response, in entries.
MaxSubs == 3

\* a property the response entry does not have
Undefined == <<-1>>

\* SubDownloadsCnt: missing, "0", "2", "10", "x", "2x"
CountStrings ==
    {Undefined, <<48>>, <<50>>, <<49, 48>>, <<120>>, <<50, 120>>}

\* SubDownloadLink and SubFormat of an entry
LinkAndFormat ==
    {<<"http", "srt">>, <<"http", "ASS">>, <<"http", "txt">>, <<"", "srt">>}

\* the response with the links, formats and counts f gives, in that order
ResponseOf(f) ==
    [k \in DOMAIN f |-> [IDSubtitleFile |-> k,
                         SubDownloadLink |-> f[k][1][1],
                         SubFormat |-> f[k][1][2],
                         SubDownloadsCnt |-> f[k][2]]]

IsDigit(c) == 48 <= c /\ c <= 57

RECURSIVE ParseDigits(_, _, _)
\* the digits from position i on, read in base 10 onto acc
ParseDigits(str, i, acc) ==
    IF i <= Len(str) /\ IsDigit(str[i])
    THEN ParseDigits(str, i + 1, 10 * acc + (str[i] - 48))
    ELSE acc

\* parseInt(v, 10): <<n>> for the number the leading digits give, <<>> for NaN
ParseInt(v) ==
    IF v = Undefined \/ v = <<>> \/ ~IsDigit(v[1])
    THEN <<>>
    ELSE <<ParseDigits(v, 1, 0)>>

\* lines 115-116 and 137: parseInt(...) || 0
OrZero(r) == IF r = <<>> \/ r = <<0>> THEN 0 ELSE r[1]

Downloads(sub) == OrZero(ParseInt(sub.SubDownloadsCnt))

\* lines 114-118: the function given to sort
CompareFn(a, b) == Downloads(b) - Downloads(a)

\* line 108: toLowerCase on the formats
FormatToLowerCase(f) == IF f = "ASS" THEN "ass" ELSE f

\* lines 105-109: the function given to filter
ValidFormat(sub) ==
    /\ sub.SubDownloadLink # ""
    /\ sub.SubFormat # ""
    /\ FormatToLowerCase(sub.SubFormat) \in {"srt", "vtt", "sub", "ass"}

RECURSIVE FilterSeq(_)
FilterSeq(subs) ==
    IF subs = <<>> THEN <<>>
    ELSE (IF ValidFormat(Head(subs)) THEN <<Head(subs)>> ELSE <<>>)
            \o FilterSeq(Tail(subs))

RECURSIVE SortInsert_beforeTies(_, _)
SortInsert_beforeTies(sorted, x) ==
    IF sorted = <<>> THEN <<x>>
    ELSE IF CompareFn(Head(sorted), x) >= 0
         THEN <<x>> \o sorted
         ELSE <<Head(sorted)>> \o SortInsert_beforeTies(Tail(sorted), x)

RECURSIVE SortInsert(_, _)
\* Array.prototype.sort is stable: x, which came later, goes behind every
\* element the function does not order after it
SortInsert(sorted, x) ==
    IF sorted = <<>> THEN <<x>>
    ELSE IF CompareFn(Head(sorted), x) > 0
         THEN <<x>> \o sorted
         ELSE <<Head(sorted)>> \o SortInsert(Tail(sorted), x)

RECURSIVE ArraySort(_)
\* line 114: validFormatSubs.sort(...)
ArraySort(subs) ==
    IF subs = <<>> THEN <<>>
    ELSE SortInsert(ArraySort(SubSeq(subs, 1, Len(subs) - 1)), subs[Len(subs)])

\* lines 119-138: the function given to map
ToListEntry(sub) ==
    [id |-> sub.IDSubtitleFile,
     url |-> sub.SubDownloadLink,
     format |-> sub.SubFormat,
     downloads |-> Downloads(sub)]

RankInit ==
    /\ SchedInit
    /\ MergeIdle
    /\ ContentIdle
    /\ responseData = <<>>
    /\ validFormatSubs = <<>>
    /\ subtitleList = <<>>
    /\ rankPc = "await"
    /\ rankRet = "none"

\* lines 94-100: the await gives the response, whose data is an array
AwaitResponse(d) ==
    /\ rankPc = "await"
    /\ responseData' = d
    /\ rankPc' = "filter"
    /\ UNCHANGED <<validFormatSubs, subtitleList, rankRet>>

\* lines 101-113
FilterFormats ==
    /\ rankPc = "filter"
    /\ IF responseData = <<>>
        THEN /\ rankPc' = "done"                                    \* lines 101-104
             /\ rankRet' = "null"
             /\ UNCHANGED validFormatSubs
        ELSE /\ validFormatSubs' = FilterSeq(responseData)
             /\ IF validFormatSubs' = <<>>
                 THEN rankPc' = "done" /\ rankRet' = "null"         \* lines 110-113
                 ELSE rankPc' = "sort" /\ UNCHANGED rankRet
    /\ UNCHANGED <<responseData, subtitleList>>

\* lines 114-118
SortByDownloads ==
    /\ rankPc = "sort"
    /\ validFormatSubs' = ArraySort(validFormatSubs)
    /\ rankPc' = "map"
    /\ UNCHANGED <<responseData, subtitleList, rankRet>>

\* lines 119-140
MapAndReturn ==
    /\ rankPc = "map"
    /\ subtitleList' = [k \in 1..Len(validFormatSubs) |-> ToListEntry(validFormatSubs[k])]
    /\ rankPc' = "done"
    /\ rankRet' = "list"
    /\ UNCHANGED <<responseData, validFormatSubs>>

RankNext ==
    \/ (/\ rankPc = "await"
        /\ \E len \in 0..MaxSubs : \E f \in [1..len -> LinkAndFormat \X CountStrings] :
                AwaitResponse(ResponseOf(f)))
            /\ UNCHANGED <<schedVars, callVars, histVars, clockVars, mergeVars, normVars>>
    \/ FilterFormats /\ UNCHANGED <<schedVars, callVars, histVars, clockVars, mergeVars, normVars>>
    \/ SortByDownloads /\ UNCHANGED <<schedVars, callVars, histVars, clockVars, mergeVars, normVars>>
    \/ MapAndReturn /\ UNCHANGED <<schedVars, callVars, histVars, clockVars, mergeVars, normVars>>

RankSpec == RankInit /\ [][RankNext]_vars

\* the number the catalog's count stands for: the decimal number at its
\* front, 0 when the count is missing or has no digit at its front
CountOf(cnt) ==
    IF cnt = Undefined THEN 0
    ELSE LET k == CHOOSE n \in 0..Len(cnt) :
                    /\ \A i \in 1..n : IsDigit(cnt[i])
                    /\ n < Len(cnt) => ~IsDigit(cnt[n + 1])
             Pow10[e \in 0..Len(cnt)] == IF e = 0 THEN 1 ELSE 10 * Pow10[e - 1]
             Sum[i \in 0..k] == IF i = 0 THEN 0
                                ELSE Sum[i - 1] + (cnt[i] - 48) * Pow10[k - i]
         IN Sum[k]

=============================================================================
